---- MODULE Spec2Model ----
(***************************************************************************)
(* A model of gm, a command line wrapper around git submodules            *)
(* (src/src/main.rs): the display-name derivation format_name, the change  *)
(* renderer display_change, and the five subcommands of main.              *)
(*                                                                         *)
(* Strings are sequences of one-character strings.  A submodule name or a  *)
(* path as the library hands it over is a byte string; the byte that is    *)
(* not valid UTF-8 is written "xFF", and to_str_lossy turns it into the    *)
(* replacement character, written "uFFFD".  A literal of a format string   *)
(* is a one-element sequence holding the literal.                          *)
(***************************************************************************)
EXTENDS Naturals, Sequences, FiniteSets

VARIABLES
    pc,      \* the position of main (or "call"/"return" of a function under test)
    cmd,     \* the parsed command line: Args
    out,     \* the lines printed to standard output so far
    result,  \* how the process ended: "running", "ok", "err" or "exit"
    code,    \* the exit code passed to std::process::exit, when result = "exit"
    log,     \* the calls made to the git binary and to the library, in order
    repo,    \* the submodules as the library enumerated them (before sorting)
    subs,    \* the sorted submodules the loop iterates over
    idx,     \* the loop's position in subs
    cidx,    \* the inner loop's position in the current submodule's changes
    arg,     \* the argument of the function under test
    ret      \* the value the function under test returned

vars == <<pc, cmd, out, result, code, log, repo, subs, idx, cidx, arg, ret>>

-----------------------------------------------------------------------------
(* Bounds *)

MaxNameLen == 4
MaxPathLen == 2
MaxSubs == 3

-----------------------------------------------------------------------------
(* Option<T> *)

None == [some |-> FALSE]
Some(v) == [some |-> TRUE, val |-> v]

-----------------------------------------------------------------------------
(* Strings *)

Slash == "/"
Backslash == "\\"

\* All sequences over S of length at most n.
SeqsUpTo(S, n) == UNION {[1..k -> S] : k \in 0..n}

\* The characters names are drawn from: both separators and two letters.
NameChars == {Slash, Backslash, "a", "b"}

\* The bytes paths are drawn from: two letters and a byte that is not UTF-8.
PathBytes == {"a", "b", "xFF"}

\* The order of the bytes (u8 comparison).
ByteVal(b) ==
    CASE b = "." -> 46
      [] b = Slash -> 47
      [] b = Backslash -> 92
      [] b = "a" -> 97
      [] b = "b" -> 98
      [] b = "c" -> 99
      [] b = "g" -> 103
      [] b = "i" -> 105
      [] b = "o" -> 111
      [] b = "r" -> 114
      [] b = "t" -> 116
      [] b = "z" -> 122
      [] b = "xFF" -> 255

\* [u8]::cmp: lexicographic comparison of two byte strings, -1, 0 or 1
\* written as "lt", "eq", "gt".
RECURSIVE CmpBytes(_, _)
CmpBytes(a, b) ==
    IF a = <<>> /\ b = <<>> THEN "eq"
    ELSE IF a = <<>> THEN "lt"
    ELSE IF b = <<>> THEN "gt"
    ELSE IF ByteVal(Head(a)) < ByteVal(Head(b)) THEN "lt"
    ELSE IF ByteVal(Head(a)) > ByteVal(Head(b)) THEN "gt"
    ELSE CmpBytes(Tail(a), Tail(b))

\* ByteSlice::to_str_lossy: every invalid byte becomes U+FFFD.
ToStrLossy(bytes) ==
    [i \in 1..Len(bytes) |-> IF bytes[i] = "xFF" THEN "uFFFD" ELSE bytes[i]]

\* The positions of character c in s.
Positions(s, c) == {i \in 1..Len(s) : s[i] = c}

Max(S) == CHOOSE m \in S : \A n \in S : n <= m

\* str::rsplit_once(char): the text before and the text after the last
\* occurrence of c, or None when c does not occur.
RSplitOnce(s, c) ==
    IF Positions(s, c) = {} THEN None
    ELSE LET i == Max(Positions(s, c))
         IN  Some(<<SubSeq(s, 1, i - 1), SubSeq(s, i + 1, Len(s))>>)

\* Option::or
OptOr(a, b) == IF a.some THEN a ELSE b

\* str::ends_with
EndsWith(s, suffix) ==
    /\ Len(s) >= Len(suffix)
    /\ SubSeq(s, Len(s) - Len(suffix) + 1, Len(s)) = suffix

\* str::trim_end_matches(&str): the suffix is removed as often as it matches.
RECURSIVE TrimEndMatches(_, _)
TrimEndMatches(s, suffix) ==
    IF suffix # <<>> /\ EndsWith(s, suffix)
    THEN TrimEndMatches(SubSeq(s, 1, Len(s) - Len(suffix)), suffix)
    ELSE s

-----------------------------------------------------------------------------
(* format_name *)

\* A slip format_name could have: unwrap_or_default in place of
\* unwrap_or(name), so a name without a separator is lost.
format_name_no_fallback(name) ==
    LET split == OptOr(RSplitOnce(name, Slash), RSplitOnce(name, Backslash))
    IN  IF split.some THEN split.val[2] ELSE <<>>

format_name(name) ==
    LET split == OptOr(RSplitOnce(name, Slash), RSplitOnce(name, Backslash))
    IN  IF split.some THEN split.val[2] ELSE name

-----------------------------------------------------------------------------
(* The function under test is called once on an argument drawn in Init. *)

Names == SeqsUpTo(NameChars, MaxNameLen)

Idle ==
    /\ cmd = None /\ out = <<>> /\ result = "running" /\ code = None
    /\ log = <<>> /\ repo = None /\ subs = <<>> /\ idx = 0 /\ cidx = 0

InitFormat ==
    /\ Idle
    /\ pc = "call"
    /\ arg \in Names
    /\ ret = None

CallFormatName ==
    /\ pc = "call"
    /\ ret' = Some(format_name(arg))
    /\ pc' = "return"
    /\ UNCHANGED <<cmd, out, result, code, log, repo, subs, idx, cidx, arg>>

NextFormat == CallFormatName

SpecFormat == InitFormat /\ [][NextFormat]_vars

-----------------------------------------------------------------------------
(* Claims about format_name, under SpecFormat *)

IsSeparator(c) == c = Slash \/ c = Backslash

SeparatorPositions(s) == {i \in 1..Len(s) : IsSeparator(s[i])}

\* The text after the last separator of either kind.
AfterLastSeparator(s) == SubSeq(s, Max(SeparatorPositions(s)) + 1, Len(s))

\* C1: for a name that holds a forward slash or a backslash, format_name
\* returns the text after the last occurrence of either separator.
C1_AfterLastSeparator ==
    (pc = "return" /\ SeparatorPositions(arg) # {})
        => ret = Some(AfterLastSeparator(arg))

\* C2: for a name whose last character is a separator, format_name returns
\* the empty string.
C2_TrailingSeparatorGivesEmpty ==
    (pc = "return" /\ arg # <<>> /\ IsSeparator(arg[Len(arg)]))
        => ret = Some(<<>>)

\* C3: for a name without any separator, the empty name included,
\* format_name returns its input unchanged; it returns for every name.
C3_NoSeparatorUnchanged ==
    /\ pc = "return" => ret.some
    /\ (pc = "return" /\ SeparatorPositions(arg) = {}) => ret = Some(arg)

C3_Witness ==
    /\ pc = "return"
    /\ arg = <<"a", "b">>
    /\ ret = Some(<<"a", "b">>)

-----------------------------------------------------------------------------
(* Printed lines *)

\* A line is a sequence of segments.  A segment is a text with the
\* emphasis the colored crate attaches to it: bold, dimmed, foreground.
Seg(text, bold, dimmed, fg) ==
    [text |-> text, bold |-> bold, dimmed |-> dimmed, fg |-> fg]

\* A literal part of a format string.
Plain(lit) == Seg(<<lit>>, FALSE, FALSE, "none")

\* The characters of a line, emphasis left out.
RECURSIVE LineText(_)
LineText(line) ==
    IF line = <<>> THEN <<>> ELSE Head(line).text \o LineText(Tail(line))

-----------------------------------------------------------------------------
(* display_change *)

Ok == "Ok"

\* gix::status::index_worktree::iter::Item, as far as display_change reads it.
Modification(rela_path, status) ==
    [item |-> "Modification", rela_path |-> rela_path, status |-> status]

DirectoryContents(rela_path) ==
    [item |-> "DirectoryContents", rela_path |-> rela_path]

\* source_rela_path is the path of the rewrite's source: source_rela_path
\* of RewriteFromIndex, source_dirwalk_entry.rela_path of
\* CopyFromDirectoryEntry; rela_path is dirwalk_entry.rela_path.
Rewrite(source, source_rela_path, rela_path) ==
    [item |-> "Rewrite", source |-> source,
     source_rela_path |-> source_rela_path, rela_path |-> rela_path]

EntryStatuses == {"Conflict", "Change", "IntentToAdd", "NeedsUpdate"}

RewriteSources == {"RewriteFromIndex", "CopyFromDirectoryEntry"}

\* A slip display_change could have: the needs-update-only entry falls into
\* the arm of the plain changes and is printed.
display_change_prints_needs_update(change) ==
    IF change.item = "Modification"
    THEN IF change.status = "Conflict"
         THEN <<<<Plain("    "), Seg(ToStrLossy(change.rela_path), TRUE, FALSE, "red")>>>>
         ELSE <<<<Plain("    "), Seg(ToStrLossy(change.rela_path), TRUE, FALSE, "yellow")>>>>
    ELSE IF change.item = "DirectoryContents"
    THEN <<<<Plain("    "), Seg(ToStrLossy(change.rela_path), FALSE, FALSE, "red")>>>>
    ELSE <<<<Plain("    "),
             Seg(ToStrLossy(change.source_rela_path), TRUE, FALSE, "none"),
             Plain(" -> "),
             Seg(ToStrLossy(change.rela_path), TRUE, FALSE, "none")>>>>

\* A slip display_change could have: the two sides of a rewrite swapped.
display_change_swapped(change) ==
    IF change.item = "Modification"
    THEN IF change.status = "Conflict"
         THEN <<<<Plain("    "), Seg(ToStrLossy(change.rela_path), TRUE, FALSE, "red")>>>>
         ELSE IF change.status \in {"Change", "IntentToAdd"}
         THEN <<<<Plain("    "), Seg(ToStrLossy(change.rela_path), TRUE, FALSE, "yellow")>>>>
         ELSE <<>>
    ELSE IF change.item = "DirectoryContents"
    THEN <<<<Plain("    "), Seg(ToStrLossy(change.rela_path), FALSE, FALSE, "red")>>>>
    ELSE <<<<Plain("    "),
             Seg(ToStrLossy(change.rela_path), TRUE, FALSE, "none"),
             Plain(" -> "),
             Seg(ToStrLossy(change.source_rela_path), TRUE, FALSE, "none")>>>>

\* The lines display_change prints for a change (none or one); it returns
\* Ok(()) on every path.
display_change(change) ==
    IF change.item = "Modification"
    THEN IF change.status = "Conflict"
         THEN <<<<Plain("    "), Seg(ToStrLossy(change.rela_path), TRUE, FALSE, "red")>>>>
         ELSE IF change.status \in {"Change", "IntentToAdd"}
         THEN <<<<Plain("    "), Seg(ToStrLossy(change.rela_path), TRUE, FALSE, "yellow")>>>>
         ELSE <<>>
    ELSE IF change.item = "DirectoryContents"
    THEN <<<<Plain("    "), Seg(ToStrLossy(change.rela_path), FALSE, FALSE, "red")>>>>
    ELSE IF change.source = "RewriteFromIndex"
    THEN <<<<Plain("    "),
             Seg(ToStrLossy(change.source_rela_path), TRUE, FALSE, "none"),
             Plain(" -> "),
             Seg(ToStrLossy(change.rela_path), TRUE, FALSE, "none")>>>>
    ELSE <<<<Plain("    "),
             Seg(ToStrLossy(change.source_rela_path), TRUE, FALSE, "none"),
             Plain(" -> "),
             Seg(ToStrLossy(change.rela_path), TRUE, FALSE, "none")>>>>

-----------------------------------------------------------------------------
(* display_change is called once on a change entry drawn in Init. *)

Paths == SeqsUpTo(PathBytes, MaxPathLen) \ {<<>>}

Items ==
    {Modification(p, s) : p \in Paths, s \in EntryStatuses}
        \cup {DirectoryContents(p) : p \in Paths}
        \cup {Rewrite(src[1], src[2], p) :
                 src \in RewriteSources \X Paths, p \in Paths}

InitChange ==
    /\ Idle
    /\ pc = "call"
    /\ arg \in Items
    /\ ret = None

CallDisplayChange ==
    /\ pc = "call"
    /\ out' = out \o display_change(arg)
    /\ ret' = Some(Ok)
    /\ pc' = "return"
    /\ UNCHANGED <<cmd, result, code, log, repo, subs, idx, cidx, arg>>

NextChange == CallDisplayChange

SpecChange == InitChange /\ [][NextChange]_vars

-----------------------------------------------------------------------------
(* Claims about display_change, under SpecChange *)

IsNeedsUpdate(change) ==
    change.item = "Modification" /\ change.status = "NeedsUpdate"

\* C6: for a modification whose status is needs-update-only, display_change
\* prints no line and returns success; for every other change entry it
\* prints exactly one line.
C6_NeedsUpdateSuppressed ==
    pc = "return" =>
        /\ ret = Some(Ok)
        /\ Len(out) = (IF IsNeedsUpdate(arg) THEN 0 ELSE 1)

C6_Witness ==
    /\ pc = "return"
    /\ IsNeedsUpdate(arg)
    /\ out = <<>>
    /\ ret = Some(Ok)

\* C7: for a rewrite, from the index or a copy of a directory entry, the one
\* line printed is the indentation, the source path, " -> " and the
\* destination path, in that order and nothing else; only the two paths
\* carry emphasis.
C7_RewriteSourceThenDestination ==
    (pc = "return" /\ arg.item = "Rewrite") =>
        /\ Len(out) = 1
        /\ LineText(out[1]) =
               <<"    ">> \o ToStrLossy(arg.source_rela_path)
                     \o <<" -> ">> \o ToStrLossy(arg.rela_path)
        /\ Len(out[1]) = 4
        /\ out[1][1] = Plain("    ")
        /\ out[1][3] = Plain(" -> ")
        /\ out[1][2].bold /\ out[1][4].bold

C7_Witness ==
    /\ pc = "return"
    /\ arg = Rewrite("CopyFromDirectoryEntry", <<"a">>, <<"b", "a">>)
    /\ LineText(out[1]) = <<"    ", "a", " -> ", "b", "a">>

-----------------------------------------------------------------------------
(* The command line and the world main runs in *)

\* What Url::try_from makes of a URL text: None when it does not parse,
\* else the host (if any) and the path.
Url(host, path) == [host |-> host, path |-> path]

UrlTryFrom(text) ==
    CASE text = "https://github.com/o/r.git" ->
             Some(Url(Some("github.com"), <<"/", "o", "/", "r", ".", "g", "i", "t">>))
      [] text = "git@github.com:r" ->
             Some(Url(Some("github.com"), <<"r">>))
      [] text = "https://gitlab.com/o/r.git" ->
             Some(Url(Some("gitlab.com"), <<"/", "o", "/", "r", ".", "g", "i", "t">>))
      [] text = "/o/r" ->
             Some(Url(None, <<"/", "o", "/", "r">>))
      [] text = "https://[" -> None

UrlTexts ==
    {"https://github.com/o/r.git", "git@github.com:r",
     "https://gitlab.com/o/r.git", "/o/r", "https://["}

\* Args: the working-directory override and the subcommand.
Commands ==
    {[op |-> "clone", cwd |-> c, url |-> u, path |-> p] :
        c \in BOOLEAN, u \in UrlTexts, p \in {None, Some(<<"c">>)}}
        \cup {[op |-> "rm", cwd |-> c, path |-> <<"c">>] : c \in BOOLEAN}
        \cup {[op |-> o, cwd |-> c] : o \in {"init", "ls", "status"}, c \in BOOLEAN}

\* std::process::ExitStatus of a git process: exited with a code, or
\* ended by a signal (no code).
ExitStatus(c) == [success |-> c = Some(0), code |-> c]

ExitStatuses == {ExitStatus(c) : c \in {Some(0), Some(1), Some(128), None}}

\* A slip: the exit code of the clone process is dropped.
ExitCodeAlwaysOne(status) == 1

\* status.code().unwrap_or(1)
ExitCodeOf(status) == IF status.code.some THEN status.code.val ELSE 1

\* A submodule as the library describes it: its name and path (bytes),
\* state().repository_exists, and what status(Ignore::None, false) gives:
\* is_dirty() and the changes.
Submodule(name, path, exists, dirty, changes) ==
    [name |-> name, path |-> path, repository_exists |-> exists,
     is_dirty |-> dirty, changes |-> changes]

SubmodulePool ==
    { Submodule(<<"a", "/", "z">>, <<"a", "/", "z">>, TRUE, Some(TRUE),
          Some(<<Modification(<<"b">>, "NeedsUpdate"),
                 Modification(<<"a">>, "Change"),
                 Rewrite("RewriteFromIndex", <<"a">>, <<"b">>)>>)),
      Submodule(<<"b", "/", "a">>, <<"b">>, TRUE, Some(TRUE),
          Some(<<Modification(<<"a">>, "NeedsUpdate")>>)),
      Submodule(<<"c">>, <<"c">>, FALSE, Some(FALSE), None),
      Submodule(<<"b", Backslash, "xFF">>, <<"xFF">>, TRUE, Some(FALSE), Some(<<>>)),
      Submodule(<<"a">>, <<"a">>, TRUE, Some(TRUE),
          Some(<<Modification(<<"a">>, "Conflict"),
                 DirectoryContents(<<"b">>),
                 Rewrite("CopyFromDirectoryEntry", <<"b">>, <<"a">>),
                 Modification(<<"b">>, "IntentToAdd")>>)),
      Submodule(<<"a", Backslash, "b">>, <<"a", "/", "b">>, TRUE, None, None),
      Submodule(<<"z">>, <<"z">>, FALSE, None, None) }

\* The submodules of a repository, in the order the library enumerates them.
Repos == SeqsUpTo(SubmodulePool, MaxSubs)

-----------------------------------------------------------------------------
(* Sorting: Itertools::sorted_by(|a, b| a.name().cmp(b.name())), a stable
   sort of the collected items *)

\* x goes after every element that does not compare greater than it.
RECURSIVE InsertByName(_, _)
InsertByName(sorted, x) ==
    IF sorted = <<>> THEN <<x>>
    ELSE IF CmpBytes(Head(sorted).name, x.name) = "gt" THEN <<x>> \o sorted
    ELSE <<Head(sorted)>> \o InsertByName(Tail(sorted), x)

RECURSIVE SortFrom(_, _)
SortFrom(sorted, rest) ==
    IF rest = <<>> THEN sorted
    ELSE SortFrom(InsertByName(sorted, Head(rest)), Tail(rest))

\* A slip: the submodules are listed in the library's order.
SortedByName_unsorted(submodules) == submodules

SortedByName(submodules) == SortFrom(<<>>, submodules)

-----------------------------------------------------------------------------
(* The lines main prints *)

\* display_name, when submodule.state() succeeded.
display_name(submodule) ==
    IF submodule.repository_exists
    THEN Seg(format_name(ToStrLossy(submodule.name)), TRUE, FALSE, "blue")
    ELSE Seg(format_name(ToStrLossy(submodule.name)), TRUE, FALSE, "none")

CloneLine(submodule) ==
    << Seg(<<"initialized">>, TRUE, FALSE, "none"), Plain(" "),
       display_name(submodule), Plain(" "),
       Seg(<<"at">>, TRUE, FALSE, "none"), Plain(" "),
       Seg(ToStrLossy(submodule.path), TRUE, TRUE, "none") >>

LsLine(submodule) ==
    << display_name(submodule), Plain(" "),
       Seg(ToStrLossy(submodule.path), FALSE, TRUE, "none") >>

StatusWord(submodule) ==
    IF submodule.is_dirty = Some(TRUE) THEN Seg(<<"dirty">>, TRUE, FALSE, "yellow")
    ELSE IF submodule.is_dirty = Some(FALSE) THEN Seg(<<"clean">>, TRUE, FALSE, "green")
    ELSE IF submodule.repository_exists THEN Seg(<<"unknown">>, TRUE, FALSE, "none")
    ELSE Seg(<<"uninitialized">>, TRUE, TRUE, "none")

StatusLine(submodule) ==
    << display_name(submodule), Plain(" "),
       Seg(ToStrLossy(submodule.path), FALSE, TRUE, "none"), Plain(" "),
       StatusWord(submodule) >>

NoSubmodulesLine == <<Plain("No submodules found")>>

ChangesHeader == <<Plain("  changes:")>>

\* A slip: the header is printed only when some entry will print a line.
HeaderLines_if_any_printed(changes) ==
    IF \E i \in 1..Len(changes) : display_change(changes[i]) # <<>>
    THEN <<ChangesHeader>> ELSE <<>>

\* if !changes.is_empty() { println!("  changes:") }
HeaderLines(changes) == IF changes # <<>> THEN <<ChangesHeader>> ELSE <<>>

\* The repository path the clone arm lists submodules of, or None when it
\* returns Ok(()) without listing.  First a slip: the host is not looked at.
CloneRepoPath_any_host(path, url) ==
    IF path.some THEN path
    ELSE LET split == RSplitOnce(url.path, Slash)
         IN  IF split.some
             THEN Some(TrimEndMatches(split.val[2], <<".", "g", "i", "t">>))
             ELSE None

CloneRepoPath(path, url) ==
    IF path.some THEN path
    ELSE IF url.host = Some("github.com")
    THEN LET split == RSplitOnce(url.path, Slash)
         IN  IF split.some
             THEN Some(TrimEndMatches(split.val[2], <<".", "g", "i", "t">>))
             ELSE None
    ELSE None

-----------------------------------------------------------------------------
(* main *)

\* An entry of the log: a call to the outside, what it was given, and
\* whether it succeeded (its Result was Ok).
Call(name, detail, ok) == [call |-> name, detail |-> detail, ok |-> ok]

Init ==
    /\ pc = "start"
    /\ cmd \in Commands
    /\ out = <<>>
    /\ result = "running"
    /\ code = None
    /\ log = <<>>
    /\ repo = None
    /\ subs = <<>>
    /\ idx = 0
    /\ cidx = 0
    /\ arg = None
    /\ ret = None

\* The ? operator on an Err, and main's final Ok(()).
Terminate(how) ==
    /\ result' = how
    /\ pc' = "done"

FirstStep(op) ==
    CASE op = "clone" -> "clone_which"
      [] op = "init" -> "init_which"
      [] op = "rm" -> "rm_which"
      [] op = "ls" -> "ls_discover"
      [] op = "status" -> "status_discover"

\* let cwd = args.cwd or std::env::current_dir()?.try_into()?
ResolveCwd ==
    /\ pc = "start"
    /\ \/ /\ cmd.cwd
          /\ pc' = FirstStep(cmd.op)
          /\ UNCHANGED <<result, log>>
       \/ /\ ~cmd.cwd
          /\ log' = Append(log, Call("current_dir", <<>>, TRUE))
          /\ pc' = FirstStep(cmd.op)
          /\ UNCHANGED result
       \/ /\ ~cmd.cwd
          /\ log' = Append(log, Call("current_dir", <<>>, FALSE))
          /\ Terminate("err")
    /\ UNCHANGED <<cmd, out, code, repo, subs, idx, cidx, arg, ret>>

\* which::which("git")?
Which(here, next) ==
    /\ pc = here
    /\ \E found \in BOOLEAN :
          /\ log' = Append(log, Call("which", <<"git">>, found))
          /\ IF found THEN pc' = next /\ UNCHANGED result ELSE Terminate("err")
    /\ UNCHANGED <<cmd, out, code, repo, subs, idx, cidx, arg, ret>>

\* Command::new(git).arg(..).current_dir(&cwd).spawn()?
Spawn(here, next, args) ==
    /\ pc = here
    /\ \E spawned \in BOOLEAN :
          /\ log' = Append(log, Call("spawn", args, spawned))
          /\ IF spawned THEN pc' = next /\ UNCHANGED result ELSE Terminate("err")
    /\ UNCHANGED <<cmd, out, code, repo, subs, idx, cidx, arg, ret>>

(* Subcommand::Clone *)

CloneArgs ==
    IF cmd.path.some
    THEN <<"clone", "--recursive", cmd.url, cmd.path.val>>
    ELSE <<"clone", "--recursive", cmd.url>>

CloneWhich == Which("clone_which", "clone_spawn")

CloneSpawn == Spawn("clone_spawn", "clone_wait", CloneArgs)

\* let status = command.spawn()?.wait()?;
\* if !status.success() { std::process::exit(status.code().unwrap_or(1)) }
CloneWait ==
    /\ pc = "clone_wait"
    /\ \/ /\ log' = Append(log, Call("wait", [args |-> CloneArgs], FALSE))
          /\ Terminate("err")
          /\ UNCHANGED code
       \/ \E status \in ExitStatuses :
             /\ log' = Append(log, Call("wait", [args |-> CloneArgs, status |-> status], TRUE))
             /\ IF status.success
                THEN pc' = "clone_url" /\ UNCHANGED <<result, code>>
                ELSE Terminate("exit") /\ code' = Some(ExitCodeOf(status))
    /\ UNCHANGED <<cmd, out, repo, subs, idx, cidx, arg, ret>>

\* let url = Url::try_from(url.as_str())?; let repo_path = match path { .. };
CloneUrl ==
    /\ pc = "clone_url"
    /\ LET url == UrlTryFrom(cmd.url)
       IN  /\ log' = Append(log, Call("url_parse", cmd.url, url.some))
           /\ IF ~url.some THEN Terminate("err")
              ELSE IF CloneRepoPath(cmd.path, url.val).some
              THEN pc' = "clone_discover" /\ UNCHANGED result
              ELSE Terminate("ok")
    /\ UNCHANGED <<cmd, out, code, repo, subs, idx, cidx, arg, ret>>

\* gix::discover(path)?
Discover(here, next, path) ==
    /\ pc = here
    /\ \E found \in BOOLEAN :
          /\ log' = Append(log, Call("discover", path, found))
          /\ IF found THEN pc' = next /\ UNCHANGED result ELSE Terminate("err")
    /\ UNCHANGED <<cmd, out, code, repo, subs, idx, cidx, arg, ret>>

\* let abs_repo_path = cwd.join(repo_path); gix::discover(abs_repo_path)?
CloneDiscover ==
    Discover("clone_discover", "clone_submodules",
             <<"cwd", CloneRepoPath(cmd.path, UrlTryFrom(cmd.url).val).val>>)

\* let Some(submodules) = repo.submodules()? else { .. };
\* submodules.sorted_by(|a, b| a.name().cmp(b.name()))
\* none: the lines printed when the repository has no submodules.
Submodules(here, next, none) ==
    /\ pc = here
    /\ \/ /\ log' = Append(log, Call("submodules", <<>>, FALSE))
          /\ Terminate("err")
          /\ UNCHANGED <<out, repo, subs, idx>>
       \/ /\ log' = Append(log, Call("submodules", <<>>, TRUE))
          /\ out' = out \o none
          /\ Terminate("ok")
          /\ UNCHANGED <<repo, subs, idx>>
       \/ \E found \in Repos :
             /\ log' = Append(log, Call("submodules", <<>>, TRUE))
             /\ repo' = Some(found)
             /\ subs' = SortedByName(found)
             /\ idx' = 1
             /\ pc' = next
             /\ UNCHANGED <<out, result>>
    /\ UNCHANGED <<cmd, code, cidx, arg, ret>>

CloneSubmodules == Submodules("clone_submodules", "clone_list", <<>>)

\* One turn of a listing loop: display_name(&submodule)? and
\* submodule.path()? may fail, else the line (of subs[idx]) is printed.
\* After the last submodule main returns Ok(()).
List(here, line) ==
    /\ pc = here
    /\ \/ /\ idx > Len(subs)
          /\ Terminate("ok")
          /\ UNCHANGED <<out, idx, log>>
       \/ /\ idx <= Len(subs)
          /\ log' = Append(log, Call("submodule", subs[idx].name, FALSE))
          /\ Terminate("err")
          /\ UNCHANGED <<out, idx>>
       \/ /\ idx <= Len(subs)
          /\ log' = Append(log, Call("submodule", subs[idx].name, TRUE))
          /\ out' = Append(out, line)
          /\ idx' = idx + 1
          /\ UNCHANGED <<pc, result>>
    /\ UNCHANGED <<cmd, code, repo, subs, cidx, arg, ret>>

CloneList == List("clone_list", CloneLine(subs[idx]))

(* Subcommand::Init *)

InitWhich == Which("init_which", "init_spawn_init")

InitSpawnInit == Spawn("init_spawn_init", "init_wait_init", <<"submodule", "init">>)

\* A slip: a failed git submodule init ends the subcommand.
InitWaitInit_checks_status ==
    /\ pc = "init_wait_init"
    /\ \/ /\ log' = Append(log, Call("wait", [args |-> <<"submodule", "init">>], FALSE))
          /\ Terminate("err")
       \/ \E status \in ExitStatuses :
             /\ log' = Append(log, Call("wait",
                           [args |-> <<"submodule", "init">>, status |-> status], TRUE))
             /\ IF status.success
                THEN pc' = "init_spawn_update" /\ UNCHANGED result
                ELSE Terminate("err")
    /\ UNCHANGED <<cmd, out, code, repo, subs, idx, cidx, arg, ret>>

InitWaitInit ==
    /\ pc = "init_wait_init"
    /\ \/ /\ log' = Append(log, Call("wait", [args |-> <<"submodule", "init">>], FALSE))
          /\ Terminate("err")
       \/ \E status \in ExitStatuses :
             /\ log' = Append(log, Call("wait",
                           [args |-> <<"submodule", "init">>, status |-> status], TRUE))
             /\ pc' = "init_spawn_update"
             /\ UNCHANGED result
    /\ UNCHANGED <<cmd, out, code, repo, subs, idx, cidx, arg, ret>>

InitSpawnUpdate ==
    Spawn("init_spawn_update", "init_wait_update", <<"submodule", "update">>)

InitWaitUpdate ==
    /\ pc = "init_wait_update"
    /\ \/ /\ log' = Append(log, Call("wait", [args |-> <<"submodule", "update">>], FALSE))
          /\ Terminate("err")
       \/ \E status \in ExitStatuses :
             /\ log' = Append(log, Call("wait",
                           [args |-> <<"submodule", "update">>, status |-> status], TRUE))
             /\ Terminate("ok")
    /\ UNCHANGED <<cmd, out, code, repo, subs, idx, cidx, arg, ret>>

(* Subcommand::Rm *)

RmWhich == Which("rm_which", "rm_spawn")

RmSpawn == Spawn("rm_spawn", "rm_wait", <<"rm", cmd.path>>)

RmWait ==
    /\ pc = "rm_wait"
    /\ \/ /\ log' = Append(log, Call("wait", [args |-> <<"rm", cmd.path>>], FALSE))
          /\ Terminate("err")
       \/ \E status \in ExitStatuses :
             /\ log' = Append(log, Call("wait",
                           [args |-> <<"rm", cmd.path>>, status |-> status], TRUE))
             /\ Terminate("ok")
    /\ UNCHANGED <<cmd, out, code, repo, subs, idx, cidx, arg, ret>>

(* Subcommand::Ls *)

LsDiscover == Discover("ls_discover", "ls_submodules", <<"cwd">>)

LsSubmodules == Submodules("ls_submodules", "ls_list", <<NoSubmodulesLine>>)

LsList == List("ls_list", LsLine(subs[idx]))

(* Subcommand::Status *)

StatusDiscover == Discover("status_discover", "status_submodules", <<"cwd">>)

StatusSubmodules == Submodules("status_submodules", "status_loop", <<NoSubmodulesLine>>)

\* The head of one turn of the loop: submodule.status(Ignore::None, false)?,
\* display_name(&submodule)?, submodule.path()? and submodule.state()? may
\* fail; else the summary line is printed.  After the last submodule main
\* returns Ok(()).
StatusSummary ==
    /\ pc = "status_loop"
    /\ \/ /\ idx > Len(subs)
          /\ Terminate("ok")
          /\ UNCHANGED <<out, idx, cidx, log>>
       \/ /\ idx <= Len(subs)
          /\ log' = Append(log, Call("submodule", subs[idx].name, FALSE))
          /\ Terminate("err")
          /\ UNCHANGED <<out, idx, cidx>>
       \/ /\ idx <= Len(subs)
          /\ log' = Append(log, Call("submodule", subs[idx].name, TRUE))
          /\ out' = Append(out, StatusLine(subs[idx]))
          /\ IF subs[idx].changes.some
             THEN pc' = "status_header" /\ UNCHANGED idx
             ELSE pc' = "status_loop" /\ idx' = idx + 1
          /\ UNCHANGED <<result, cidx>>
    /\ UNCHANGED <<cmd, code, repo, subs, arg, ret>>

\* if let Some(changes) = status.changes { if !changes.is_empty() { .. } }
StatusHeader ==
    /\ pc = "status_header"
    /\ out' = out \o HeaderLines(subs[idx].changes.val)
    /\ cidx' = 1
    /\ pc' = "status_changes"
    /\ UNCHANGED <<cmd, result, code, log, repo, subs, idx, arg, ret>>

\* for change in changes { display_change(&change)?; }
StatusChange ==
    /\ pc = "status_changes"
    /\ \/ /\ cidx <= Len(subs[idx].changes.val)
          /\ out' = out \o display_change(subs[idx].changes.val[cidx])
          /\ cidx' = cidx + 1
          /\ UNCHANGED <<pc, idx>>
       \/ /\ cidx > Len(subs[idx].changes.val)
          /\ pc' = "status_loop"
          /\ idx' = idx + 1
          /\ cidx' = 0
          /\ UNCHANGED out
    /\ UNCHANGED <<cmd, result, code, log, repo, subs, arg, ret>>

Next ==
    \/ ResolveCwd
    \/ CloneWhich \/ CloneSpawn \/ CloneWait \/ CloneUrl
    \/ CloneDiscover \/ CloneSubmodules \/ CloneList
    \/ InitWhich \/ InitSpawnInit \/ InitWaitInit \/ InitSpawnUpdate \/ InitWaitUpdate
    \/ RmWhich \/ RmSpawn \/ RmWait
    \/ LsDiscover \/ LsSubmodules \/ LsList
    \/ StatusDiscover \/ StatusSubmodules \/ StatusSummary \/ StatusHeader \/ StatusChange

Spec == Init /\ [][Next]_vars

-----------------------------------------------------------------------------
(* Claims about main, under Spec *)

Called(name) == \E i \in 1..Len(log) : log[i].call = name

\* A git process that was waited on and ended unsuccessfully.
EndedUnsuccessfully(entry) ==
    entry.call = "wait" /\ entry.ok /\ ~entry.detail.status.success

\* C4: when the clone process ends unsuccessfully, clone exits with that
\* process's exit code, or with 1 when there is none, and the wait is the
\* last thing it did: no URL is parsed, no repository discovered, no line
\* printed.
C4_FailedCloneExitsWithItsCode ==
    cmd.op = "clone" =>
        \A i \in 1..Len(log) :
            EndedUnsuccessfully(log[i]) =>
                /\ i = Len(log)
                /\ pc = "done"
                /\ result = "exit"
                /\ code = (IF log[i].detail.status.code.some
                           THEN log[i].detail.status.code ELSE Some(1))
                /\ out = <<>>

C4_Witness ==
    /\ cmd.op = "clone"
    /\ log # <<>>
    /\ EndedUnsuccessfully(log[Len(log)])
    /\ log[Len(log)].detail.status.code = Some(128)
    /\ result = "exit"
    /\ code = Some(128)

\* C5: in clone, once the clone process succeeded and the URL parsed, with
\* no path argument and a host other than github.com, the tool ends
\* successfully: it discovers no repository, prints nothing and does not fail.
C5_UnknownHostEndsSilently ==
    ( /\ cmd.op = "clone"
      /\ ~cmd.path.some
      /\ UrlTryFrom(cmd.url).some
      /\ UrlTryFrom(cmd.url).val.host # Some("github.com")
      /\ Called("url_parse") )
        => /\ pc = "done"
           /\ result = "ok"
           /\ out = <<>>
           /\ ~Called("discover") /\ ~Called("submodules") /\ ~Called("submodule")
           /\ log[Len(log)].call = "url_parse"

C5_Witness ==
    /\ cmd.op = "clone"
    /\ cmd.url = "https://gitlab.com/o/r.git"
    /\ ~cmd.path.some
    /\ Called("url_parse")
    /\ result = "ok"

\* s is a prefix of t.
IsPrefix(s, t) == Len(s) <= Len(t) /\ SubSeq(t, 1, Len(s)) = s

\* The change entries that are not needs-update-only, in list order.
Shown(changes) == SelectSeq(changes, LAMBDA change : ~IsNeedsUpdate(change))

\* What status is to print for one submodule: the summary line, then the
\* header when the change list is present and not empty, then one line for
\* each entry that is not needs-update-only.
StatusBlock(submodule) ==
    <<StatusLine(submodule)>>
        \o (IF submodule.changes.some /\ submodule.changes.val # <<>>
            THEN <<ChangesHeader>> ELSE <<>>)
        \o (IF submodule.changes.some
            THEN [i \in 1..Len(Shown(submodule.changes.val)) |->
                     display_change(Shown(submodule.changes.val)[i])[1]]
            ELSE <<>>)

RECURSIVE StatusReport(_)
StatusReport(submodules) ==
    IF submodules = <<>> THEN <<>>
    ELSE StatusBlock(Head(submodules)) \o StatusReport(Tail(submodules))

IsIndented(line) == line[1] = Plain("    ")

\* C8: in status the output is, submodule after submodule, the summary line,
\* then the "changes:" header exactly when the change list is present and not
\* empty (also when every entry is suppressed), then one indented line per
\* entry that is not needs-update-only, in list order.
C8_StatusBlocks ==
    (cmd.op = "status" /\ repo.some) =>
        /\ IsPrefix(out, StatusReport(subs))
        /\ result = "ok" => out = StatusReport(subs)
        /\ \A i \in 1..Len(out) :
              \/ out[i] = ChangesHeader
              \/ IsIndented(out[i])
              \/ \E j \in 1..Len(subs) : out[i] = StatusLine(subs[j])

C8_Witness ==
    /\ cmd.op = "status"
    /\ result = "ok"
    /\ repo.some
    /\ Len(subs) = 2
    /\ subs[1].changes = Some(<<Modification(<<"a">>, "NeedsUpdate")>>)
    /\ subs[2].changes = Some(<<>>)
    /\ out = <<StatusLine(subs[1]), ChangesHeader, StatusLine(subs[2])>>

\* The submodules are in non-decreasing order of their full names.
IsSortedByFullName(submodules) ==
    \A i \in 1..(Len(submodules) - 1) :
        CmpBytes(submodules[i].name, submodules[i + 1].name) # "gt"

\* How often x occurs in s.
Count(s, x) == Cardinality({i \in 1..Len(s) : s[i] = x})

IsPermutation(s, t) ==
    /\ Len(s) = Len(t)
    /\ \A i \in 1..Len(s) : Count(s, s[i]) = Count(t, s[i])

\* The lines of the output that open a submodule: neither the header nor an
\* indented change line.
SubmoduleLines ==
    SelectSeq(out, LAMBDA line : line # ChangesHeader /\ ~IsIndented(line))

ListingLine(submodule) ==
    CASE cmd.op = "clone" -> CloneLine(submodule)
      [] cmd.op = "ls" -> LsLine(submodule)
      [] cmd.op = "status" -> StatusLine(submodule)

\* C9: in ls, status and the listing after a clone, the submodules are
\* printed in non-decreasing order of their full names: the lines that open
\* a submodule are, in order, those of the first submodules of the list
\* sorted by full name, all of them when the command succeeds; in status
\* each of them is followed by its submodule's header and change lines.
C9_SortedByFullName ==
    repo.some =>
        /\ IsSortedByFullName(subs)
        /\ IsPermutation(subs, repo.val)
        /\ Len(SubmoduleLines) <= Len(subs)
        /\ \A i \in 1..Len(SubmoduleLines) : SubmoduleLines[i] = ListingLine(subs[i])
        /\ result = "ok" => Len(SubmoduleLines) = Len(subs)
        /\ cmd.op = "status" =>
              \E k \in 0..Len(subs) :
                  /\ IsPrefix(StatusReport(SubSeq(subs, 1, k)), out)
                  /\ Len(out) - Len(StatusReport(SubSeq(subs, 1, k)))
                        <= (IF k < Len(subs) THEN Len(StatusBlock(subs[k + 1])) ELSE 0)
        /\ cmd.op # "status" => out = SubmoduleLines

\* The displayed names are out of order although the full names are sorted.
C9_Witness ==
    /\ cmd.op = "ls"
    /\ result = "ok"
    /\ repo = Some(<<CHOOSE s \in SubmodulePool : s.name = <<"b", "/", "a">>,
                     CHOOSE s \in SubmodulePool : s.name = <<"a", "/", "z">> >>)
    /\ Len(out) = 2
    /\ out[1][1].text = <<"z">>
    /\ out[2][1].text = <<"a">>

IsInitOrRm == cmd.op \in {"init", "rm"}

SpawnOf(entry, args) == entry.call = "spawn" /\ entry.detail = args

WaitOf(entry, args) == entry.call = "wait" /\ entry.detail.args = args

\* C10: in init and rm the exit status of a git process does not affect the
\* outcome: the subcommand fails exactly when git could not be located,
\* spawned or waited on (or, before the subcommand, the working directory
\* could not be determined), and never exits with a code of its own; init
\* starts git submodule update only after git submodule init was waited on,
\* and then whatever the status, and never after a failed first spawn.
C10_ExitStatusIgnored ==
    IsInitOrRm =>
        /\ result \in {"running", "ok", "err"}
        /\ code = None
        /\ out = <<>>
        /\ result = "err" <=> \E i \in 1..Len(log) : ~log[i].ok
        /\ \A i \in 1..Len(log) :
              ~log[i].ok => log[i].call \in {"current_dir", "which", "spawn", "wait"}
        /\ pc = "done" => result \in {"ok", "err"}
        /\ \A i \in 1..Len(log) :
              SpawnOf(log[i], <<"submodule", "update">>) =>
                  /\ i > 1
                  /\ WaitOf(log[i - 1], <<"submodule", "init">>)
                  /\ log[i - 1].ok
        /\ (log # <<>> /\ WaitOf(log[Len(log)], <<"submodule", "init">>)
                /\ log[Len(log)].ok)
              => (pc = "init_spawn_update" /\ result = "running")
        /\ (\E i \in 1..Len(log) :
                SpawnOf(log[i], <<"submodule", "init">>) /\ ~log[i].ok)
              => ~\E i \in 1..Len(log) : SpawnOf(log[i], <<"submodule", "update">>)

\* init ended successfully although git submodule init exited with 1.
C10_Witness ==
    /\ cmd.op = "init"
    /\ result = "ok"
    /\ \E i \in 1..Len(log) :
          /\ WaitOf(log[i], <<"submodule", "init">>)
          /\ log[i].ok
          /\ log[i].detail.status.code = Some(1)
          /\ i < Len(log)
          /\ SpawnOf(log[i + 1], <<"submodule", "update">>)

====
